---- MODULE Spec2Model ----
(***************************************************************************)
(* State-machine model of app/utils.py: format_time, clean_file_name,      *)
(* delete_file, create_directory, create_directory_for_file and the        *)
(* DirectoryManager context manager, over a small file system that other   *)
(* processes change too.  A call that makes several system calls takes one *)
(* step per system call.                                                   *)
(***************************************************************************)
EXTENDS Integers, Sequences, FiniteSets, TLC

VARIABLES
    duration,        \* format_time: the argument, [neg, k]: the float nearest to (+/-) k / 10^4
    formatted_time,  \* format_time: the returned string (sequence of characters), or NoValue
    title,           \* clean_file_name: the argument (sequence of code points)
    cleaned_title,   \* clean_file_name: the returned string, or NoTitle
    fs,              \* the file system: what each path is
    writable,        \* whether the process may write to the managed directory
    phase,           \* where the caller of the DirectoryManager stands
    scopes,          \* the lists bound by the open with statements, innermost last
    pending,         \* how the scope body that just ended did so: NoError, or its error
    frame,           \* the call in progress, between two of its system calls
    call             \* the latest completed call and what the caller saw of it

vars == <<duration, formatted_time, title, cleaned_title,
          fs, writable, phase, scopes, pending, frame, call>>
timeVars == <<duration, formatted_time>>
nameVars == <<title, cleaned_title>>
dirVars == <<fs, writable, phase, scopes, pending, frame, call>>

NoValue == "none"
NoError == "None"
\* What cleaned_title holds before clean_file_name has returned: no string, as
\* no code point is negative.
NoTitle == <<-1>>

\* What a completed call shows its caller: the value returned, the error
\* raised, the lines printed, the events sent to the logger, whether
\* os.listdir ran.  For __enter__, reuse tells that the instance had been
\* closed before; for __exit__, scope is the list bound by the scope left.
NoCall ==
    [op |-> "none", path |-> <<>>, ret |-> NoValue, raised |-> NoError,
     printed |-> 0, logged |-> <<>>, listed |-> FALSE, reuse |-> FALSE,
     scope |-> NoValue]

\* A call in progress: the function and its argument, the statement it has
\* reached, and its locals: for os.makedirs the name being made (cur) and the
\* error os.mkdir raised for it (err); for __enter__ the names os.listdir gave
\* that are still to be tested (names) and the list built so far
\* (file_paths).  touched tells that another process acted since the call
\* began, entry what the directory held when __enter__ was called.
NoFrame ==
    [op |-> "none", path |-> <<>>, at |-> "none", cur |-> <<>>, err |-> NoError,
     names |-> {}, file_paths |-> {}, touched |-> FALSE,
     entry |-> [isdir |-> FALSE, files |-> {}]]

(***************************************************************************)
(* Binary floating point.  A non-negative float is [m, s]: the integer m   *)
(* over 2^s.  m does not fit a 32-bit integer, so it is written as a       *)
(* sequence of 16-bit limbs, most significant first, no leading zero limb. *)
(* Python floats carry 53 significant bits.                                *)
(***************************************************************************)
MantissaBits == 53
LimbBits == 16
LimbBase == 65536

\* Guard limbs kept when a decimal literal is converted to binary.
ExtraLimbs == 5

\* Durations are written with four decimal places.
DecimalScale == 10000

Zeros(n) == [i \in 1..n |-> 0]

RECURSIVE Strip(_)
Strip(a) == IF a # <<>> /\ a[1] = 0 THEN Strip(Tail(a)) ELSE a

IntLimbs(n) == Strip(<<n \div LimbBase, n % LimbBase>>)

RECURSIVE LimbsInt(_)
LimbsInt(a) ==
    IF a = <<>> THEN 0
    ELSE LimbBase * LimbsInt(SubSeq(a, 1, Len(a) - 1)) + a[Len(a)]

RECURSIVE BitLen(_)
BitLen(n) == IF n = 0 THEN 0 ELSE 1 + BitLen(n \div 2)

BitLength(a) == IF a = <<>> THEN 0 ELSE BitLen(a[1]) + LimbBits * (Len(a) - 1)

IsOdd(a) == a # <<>> /\ a[Len(a)] % 2 = 1

\* a + 1
RECURSIVE Inc(_)
Inc(a) ==
    IF a = <<>> THEN <<1>>
    ELSE IF a[Len(a)] < LimbBase - 1
         THEN Append(SubSeq(a, 1, Len(a) - 1), a[Len(a)] + 1)
         ELSE Append(Inc(SubSeq(a, 1, Len(a) - 1)), 0)

\* a * c for a small integer c: schoolbook multiplication from the low limb up.
\* MulFrom(a, c, i) is the product's low limbs for a[i..Len(a)] and the carry out.
RECURSIVE MulFrom(_, _, _)
MulFrom(a, c, i) ==
    IF i > Len(a) THEN [lo |-> <<>>, carry |-> 0]
    ELSE LET p == MulFrom(a, c, i + 1)
             t == a[i] * c + p.carry
         IN  [lo |-> <<t % LimbBase>> \o p.lo, carry |-> t \div LimbBase]

MulSmall(a, c) == LET p == MulFrom(a, c, 1) IN Strip(<<p.carry>> \o p.lo)

\* Long division of a by a small integer c, from the high limb down.
\* DivUpTo(a, c, i) is the quotient and remainder of a[1..i].
RECURSIVE DivUpTo(_, _, _)
DivUpTo(a, c, i) ==
    IF i = 0 THEN [q |-> <<>>, r |-> 0]
    ELSE LET p == DivUpTo(a, c, i - 1)
             t == LimbBase * p.r + a[i]
         IN  [q |-> Append(p.q, t \div c), r |-> t % c]

DivSmall(a, c) == LET d == DivUpTo(a, c, Len(a)) IN [q |-> Strip(d.q), r |-> d.r]

\* floor(a / 2^n), and whether a non-zero remainder was dropped.
ShiftRight(a, n) ==
    LET whole == n \div LimbBits
        keep == IF whole >= Len(a) THEN <<>> ELSE SubSeq(a, 1, Len(a) - whole)
        d == DivSmall(keep, 2 ^ (n % LimbBits))
        lost == \E i \in 1..Len(a) : i > Len(a) - whole /\ a[i] # 0
    IN  [q |-> d.q, sticky |-> d.r # 0 \/ lost]

\* a mod 2^n
LowBits(a, n) ==
    LET whole == n \div LimbBits
        cut == Len(a) - whole
    IN  IF cut <= 0 THEN a
        ELSE Strip(<<a[cut] % (2 ^ (n % LimbBits))>> \o SubSeq(a, cut + 1, Len(a)))

\* Round the integer a to MantissaBits significant bits, ties to even: the
\* result is m * 2^drop.  sticky says that non-zero digits follow below a.
RoundSig(a, sticky) ==
    IF BitLength(a) <= MantissaBits THEN [m |-> a, drop |-> 0]
    ELSE LET drop == BitLength(a) - MantissaBits
             sh == ShiftRight(a, drop - 1)
             head == ShiftRight(sh.q, 1).q
             up == IsOdd(sh.q) /\ (sh.sticky \/ sticky \/ IsOdd(head))
         IN  [m |-> IF up THEN Inc(head) ELSE head, drop |-> drop]

\* The float nearest to k / 10^4 (what the literal, or k / 10000, evaluates to).
FloatOfDecimal(k) ==
    LET d == DivSmall(IntLimbs(k) \o Zeros(ExtraLimbs), DecimalScale)
        r == RoundSig(d.q, d.r # 0)
    IN  [m |-> r.m, s |-> ExtraLimbs * LimbBits - r.drop]

\* math.floor(x), as an integer.
FloatFloor(x) == LimbsInt(ShiftRight(x.m, x.s).q)

\* x - math.floor(x): exact in floating point.
FloatFrac(x) == [m |-> LowBits(x.m, x.s), s |-> x.s]

\* x * 1000, rounded to a float.
FloatTimes1000(x) ==
    LET r == RoundSig(MulSmall(x.m, 1000), FALSE)
    IN  [m |-> r.m, s |-> x.s - r.drop]

\* Python's round(x): nearest integer, ties to even.
PyRound(x) ==
    LET n == FloatFloor(x)
        f == LowBits(x.m, x.s)
        reachesHalf == x.s > 0 /\ BitLength(f) = x.s
        half == reachesHalf /\ LowBits(f, x.s - 1) = <<>>
    IN  IF reachesHalf /\ (~half \/ n % 2 = 1) THEN n + 1 ELSE n

(***************************************************************************)
(* Strings are sequences of one-character strings.                         *)
(***************************************************************************)
DigitChars == <<"0", "1", "2", "3", "4", "5", "6", "7", "8", "9">>

RECURSIVE DecimalDigits(_)
DecimalDigits(n) ==
    IF n < 10 THEN <<DigitChars[n + 1]>>
    ELSE Append(DecimalDigits(n \div 10), DigitChars[(n % 10) + 1])

\* f"{n:0<width>d}": zero-padded to at least width characters, never cut.
PadInt(n, width) ==
    LET ds == DecimalDigits(n)
    IN  IF Len(ds) >= width THEN ds
        ELSE [i \in 1..(width - Len(ds)) |-> "0"] \o ds

(***************************************************************************)
(* The file system.  Each path of a small tree is absent, a regular file,  *)
(* a directory, or another kind of entry (a FIFO, a socket).  Paths are    *)
(* sequences of components, relative to the current directory.             *)
(***************************************************************************)
Directory == <<"d">>
Paths == {<<"d">>, <<"d", "a">>, <<"d", "sub">>, <<"d", "sub", "n">>}
\* A file path with no directory component.
BareFile == <<"f">>
Kinds == {"absent", "file", "dir", "other"}

\* os.path.dirname
Parent(p) == SubSeq(p, 1, Len(p) - 1)
\* os.path.join
Join(p, name) == Append(p, name)
\* os.path.exists, os.path.isdir, os.path.isfile
Exists(f, p) == p \in Paths /\ f[p] # "absent"
IsDir(f, p) == p \in Paths /\ f[p] = "dir"
IsFile(f, p) == p \in Paths /\ f[p] = "file"

Ancestors(p) == {SubSeq(p, 1, i) : i \in 1..(Len(p) - 1)}
Descendants(p) == {q \in Paths : p \in Ancestors(q)}

\* The error of walking down to p: the first ancestor that is missing or is
\* no directory decides.  The empty path names nothing.
LookupError(f, p) ==
    LET bad == {q \in Ancestors(p) : ~IsDir(f, q)}
    IN  IF p = <<>> THEN "FileNotFoundError"
        ELSE IF bad = {} THEN NoError
        ELSE LET q == CHOOSE x \in bad : \A y \in bad : Len(x) <= Len(y)
             IN  IF Exists(f, q) THEN "NotADirectoryError" ELSE "FileNotFoundError"

\* Only the managed directory can be write-protected, and only while it is a
\* directory: a directory is created writable.
MayWrite(w, dir) == dir # Directory \/ w

\* os.remove(p): the permission on the parent is checked before the kind of
\* the entry.
OsRemove(f, w, p) ==
    LET err ==
            IF LookupError(f, p) # NoError THEN LookupError(f, p)
            ELSE IF ~Exists(f, p) THEN "FileNotFoundError"
            ELSE IF ~MayWrite(w, Parent(p)) THEN "PermissionError"
            ELSE IF IsDir(f, p) THEN "IsADirectoryError"
            ELSE NoError
    IN  [fs |-> IF err = NoError THEN [f EXCEPT ![p] = "absent"] ELSE f, raised |-> err]

\* os.mkdir(p)
OsMkdir(f, w, p) ==
    LET err ==
            IF LookupError(f, p) # NoError THEN LookupError(f, p)
            ELSE IF Exists(f, p) THEN "FileExistsError"
            ELSE IF ~MayWrite(w, Parent(p)) THEN "PermissionError"
            ELSE NoError
    IN  [fs |-> IF err = NoError THEN [f EXCEPT ![p] = "dir"] ELSE f, raised |-> err]

\* os.listdir(p): the names of the entries of p.
OsListdir(f, p) ==
    IF LookupError(f, p) # NoError THEN [names |-> {}, raised |-> LookupError(f, p)]
    ELSE IF ~Exists(f, p) THEN [names |-> {}, raised |-> "FileNotFoundError"]
    ELSE IF ~IsDir(f, p) THEN [names |-> {}, raised |-> "NotADirectoryError"]
    ELSE [names |-> {q[Len(q)] : q \in {x \in Paths : Len(x) > 1 /\ Parent(x) = p /\ f[x] # "absent"}},
          raised |-> NoError]

(***************************************************************************)
(* What one step of a call yields: the call goes on from a new frame, it   *)
(* returns, or it raises.                                                  *)
(***************************************************************************)
Going(fr, f) == [done |-> FALSE, frame |-> fr, fs |-> f, ret |-> NoValue, raised |-> NoError]
Returned(f, v) == [done |-> TRUE, frame |-> NoFrame, fs |-> f, ret |-> v, raised |-> NoError]
Raised(f, e) == [done |-> TRUE, frame |-> NoFrame, fs |-> f, ret |-> NoValue, raised |-> e]

\* The frame of a call of op on path that has not made a system call yet.
Called(op, path) == [NoFrame EXCEPT !.op = op, !.path = path, !.at = "call"]

(***************************************************************************)
(* os.makedirs(name, exist_ok=True), one system call at a time.  For each  *)
(* name, from the one asked for upwards: os.path.exists(head) when there   *)
(* is a head, and makedirs(head) first if it is missing; then              *)
(* os.mkdir(name); then, if that failed, os.path.isdir(name), which        *)
(* decides whether the error is dropped.  FileExistsError out of           *)
(* makedirs(head) is dropped, any other error ends the whole call.         *)
(***************************************************************************)
\* The name the call of fr hands to os.makedirs.
MakedirsName(fr) == IF fr.op = "create_directory" THEN fr.path ELSE Parent(fr.path)

\* Where makedirs(name) starts: a name of one component has no head to test.
MakedirsEntry(name) == IF Len(name) > 1 THEN "exists" ELSE "mkdir"

\* makedirs(fr.cur) is over, with error e or none.
MakedirsReturns(fr, f, e) ==
    IF fr.cur = MakedirsName(fr)
    THEN IF e = NoError THEN Returned(f, NoValue) ELSE Raised(f, e)
    ELSE IF e \in {NoError, "FileExistsError"}
         THEN Going([fr EXCEPT !.cur = SubSeq(MakedirsName(fr), 1, Len(fr.cur) + 1),
                               !.at = "mkdir", !.err = NoError], f)
         ELSE Raised(f, e)

OsMakedirs(f, w, fr) ==
    IF fr.at = "exists"
    THEN IF ~Exists(f, Parent(fr.cur))
         THEN Going([fr EXCEPT !.cur = Parent(fr.cur), !.at = MakedirsEntry(Parent(fr.cur))], f)
         ELSE Going([fr EXCEPT !.at = "mkdir"], f)
    ELSE IF fr.at = "mkdir"
    THEN LET made == OsMkdir(f, w, fr.cur)
         IN  IF made.raised = NoError THEN MakedirsReturns(fr, made.fs, NoError)
             ELSE Going([fr EXCEPT !.at = "isdir", !.err = made.raised], f)
    ELSE IF IsDir(f, fr.cur) THEN MakedirsReturns(fr, f, NoError)
         ELSE MakedirsReturns(fr, f, fr.err)

(***************************************************************************)
(* delete_file, create_directory, create_directory_for_file                *)
(***************************************************************************)
\* One system call, os.remove.
delete_file(f, w, file_path) ==
    LET r == OsRemove(f, w, file_path)
    IN  IF r.raised = NoError
        THEN [fs |-> r.fs, ret |-> TRUE, raised |-> NoError, printed |-> 0]
        ELSE IF r.raised = "FileNotFoundError"
        THEN [fs |-> r.fs, ret |-> TRUE, raised |-> NoError, printed |-> 0]
        ELSE [fs |-> r.fs, ret |-> FALSE, raised |-> NoError, printed |-> 1]

\* The next step of create_directory(fr.path): os.path.exists(directory),
\* then, if nothing is there, the steps of os.makedirs(directory).
create_directory(f, w, fr) ==
    IF fr.at = "call"
    THEN IF ~Exists(f, fr.path)
         THEN Going([fr EXCEPT !.cur = fr.path, !.at = MakedirsEntry(fr.path)], f)
         ELSE Returned(f, NoValue)
    ELSE OsMakedirs(f, w, fr)

\* The next step of create_directory_for_file(fr.path): the steps of
\* os.makedirs(os.path.dirname(file_path)).
create_directory_for_file(f, w, fr) ==
    IF fr.at = "call"
    THEN LET directory == Parent(fr.path)
         IN  OsMakedirs(f, w, [fr EXCEPT !.cur = directory, !.at = MakedirsEntry(directory)])
    ELSE OsMakedirs(f, w, fr)

(***************************************************************************)
(* DirectoryManager                                                        *)
(***************************************************************************)
BodyErrors == {"ValueError", "KeyError"}

\* if not os.path.exists(self.directory): raise FileNotFoundError
EnterExists(f, fr) ==
    IF ~Exists(f, Directory) THEN Raised(f, "FileNotFoundError")
    ELSE Going([fr EXCEPT !.at = "listdir"], f)

\* file_paths = []; os.listdir(self.directory)
EnterListdir(f, fr) ==
    LET l == OsListdir(f, Directory)
    IN  IF l.raised # NoError THEN Raised(f, l.raised)
        ELSE IF l.names = {} THEN Returned(f, {})
        ELSE Going([fr EXCEPT !.at = "isfile", !.names = l.names, !.file_paths = {}], f)

\* A variant of the loop body that keeps every entry.
EnterKeep(f, fr, file_name) ==
    LET found == fr.file_paths \cup {Join(Directory, file_name)}
        rest == fr.names \ {file_name}
    IN  IF rest = {} THEN Returned(f, found)
        ELSE Going([fr EXCEPT !.names = rest, !.file_paths = found], f)

\* The loop body for one name: os.path.isfile(file_path), append; after the
\* last name, return file_paths.
EnterIsfile(f, fr, file_name) ==
    LET file_path == Join(Directory, file_name)
        found == IF IsFile(f, file_path) THEN fr.file_paths \cup {file_path} ELSE fr.file_paths
        rest == fr.names \ {file_name}
    IN  IF rest = {} THEN Returned(f, found)
        ELSE Going([fr EXCEPT !.names = rest, !.file_paths = found], f)

\* Variants of __enter__: one that lists without checking that the directory
\* exists, one that keeps every entry, one that refuses a second use.
DirectoryManager_enter_unchecked(f, fr, file_name) ==
    IF fr.at = "call" THEN Going([fr EXCEPT !.at = "listdir"], f)
    ELSE IF fr.at = "listdir" THEN EnterListdir(f, fr)
    ELSE EnterIsfile(f, fr, file_name)

DirectoryManager_enter_unfiltered(f, fr, file_name) ==
    IF fr.at = "call" THEN EnterExists(f, fr)
    ELSE IF fr.at = "listdir" THEN EnterListdir(f, fr)
    ELSE EnterKeep(f, fr, file_name)

DirectoryManager_enter_single_use(f, fr, file_name) ==
    IF fr.at = "call"
    THEN IF phase = "Closed" THEN Raised(f, "RuntimeError") ELSE EnterExists(f, fr)
    ELSE IF fr.at = "listdir" THEN EnterListdir(f, fr)
    ELSE EnterIsfile(f, fr, file_name)

\* The next step of __enter__: the test of the directory, the listing, or the
\* test of file_name, one of the names still to be tested.
DirectoryManager_enter(f, fr, file_name) ==
    IF fr.at = "call" THEN EnterExists(f, fr)
    ELSE IF fr.at = "listdir" THEN EnterListdir(f, fr)
    ELSE EnterIsfile(f, fr, file_name)

\* Variants of __exit__: one that swallows the error of the body, one that
\* compares the list with the directory and fails when they differ.
DirectoryManager_exit_swallow(exc_type) ==
    [logged |-> IF exc_type # NoError THEN <<exc_type>> ELSE <<>>,
     suppress |-> TRUE, raised |-> NoError]

DirectoryManager_exit_stale_check(exc_type) ==
    [logged |-> IF exc_type # NoError THEN <<exc_type>> ELSE <<>>,
     suppress |-> FALSE,
     raised |-> IF scopes[Len(scopes)] # {p \in Paths : Len(p) > 1 /\ Parent(p) = Directory /\ IsFile(fs, p)}
                THEN "StaleError" ELSE NoError]

\* __exit__ logs the error, if there is one, and returns None: the error of
\* the body is not suppressed, and __exit__ raises nothing of its own.  It
\* makes no system call.
DirectoryManager_exit(exc_type) ==
    [logged |-> IF exc_type # NoError THEN <<exc_type>> ELSE <<>>,
     suppress |-> FALSE, raised |-> NoError]

(***************************************************************************)
(* The directory specification: one DirectoryManager(Directory) and its    *)
(* caller, a single thread that also calls the path functions, and other   *)
(* processes that change the file system between any two system calls.     *)
(***************************************************************************)
\* with statements on the one instance can be nested this deep.
MaxDepth == 2

InitialFs ==
    [p \in Paths |-> IF p \in {<<"d">>, <<"d", "sub">>} THEN "dir"
                     ELSE "file"]

DirIdle ==
    /\ fs = InitialFs
    /\ writable = TRUE
    /\ phase = "Unopened"
    /\ scopes = <<>>
    /\ pending = NoError
    /\ frame = NoFrame
    /\ call = NoCall

Init ==
    /\ DirIdle
    /\ duration = [neg |-> FALSE, k |-> 0]
    /\ formatted_time = NoValue
    /\ title = <<>>
    /\ cleaned_title = NoTitle

\* The caller is one thread: it makes a call only when no call is in progress,
\* and nothing of it runs between the end of a scope body and __exit__.
MayCall == frame = NoFrame /\ phase # "Exiting"

\* What the caller sees while a call is in progress.
InProgress == [NoCall EXCEPT !.op = "running"]

\* The regular files directly inside the managed directory.
DirectFiles(f) ==
    {p \in Paths : Len(p) = Len(Directory) + 1 /\ Parent(p) = Directory /\ f[p] = "file"}

\* A step o of __enter__: the call goes on, or it ends; when it returns a list
\* the with statement binds it and the body starts.
EnterStep(fr, o, listed) ==
    /\ IF o.done
       THEN /\ frame' = NoFrame
            /\ call' = [NoCall EXCEPT !.op = "__enter__", !.path = Directory, !.ret = o.ret,
                                      !.raised = o.raised, !.listed = listed,
                                      !.reuse = (phase = "Closed")]
            /\ IF o.raised = NoError
               THEN phase' = "Open" /\ scopes' = Append(scopes, o.ret)
               ELSE UNCHANGED <<phase, scopes>>
       ELSE /\ frame' = o.frame
            /\ call' = InProgress
            /\ UNCHANGED <<phase, scopes>>
    /\ UNCHANGED <<fs, writable, pending, timeVars, nameVars>>

\* with DirectoryManager(Directory) as file_paths: __enter__ is called, on an
\* instance in any state, and tests whether the directory exists.
Enter ==
    /\ MayCall
    /\ Len(scopes) < MaxDepth
    /\ LET fr == [Called("__enter__", Directory) EXCEPT
                      !.entry = [isdir |-> IsDir(fs, Directory), files |-> DirectFiles(fs)]]
       IN  EnterStep(fr, DirectoryManager_enter(fs, fr, ""), FALSE)

\* __enter__ lists the directory.
EnterLists ==
    /\ frame.op = "__enter__"
    /\ frame.at = "listdir"
    /\ EnterStep(frame, DirectoryManager_enter(fs, frame, ""), TRUE)

\* __enter__ tests one of the names listed, in any order.
EnterTests(file_name) ==
    /\ frame.op = "__enter__"
    /\ frame.at = "isfile"
    /\ file_name \in frame.names
    /\ EnterStep(frame, DirectoryManager_enter(fs, frame, file_name), TRUE)

\* The body of the innermost scope ends: it completes, or it raises exc.
BodyEnds(exc) ==
    /\ MayCall
    /\ phase = "Open"
    /\ phase' = "Exiting"
    /\ pending' = exc
    /\ call' = [NoCall EXCEPT !.op = "body", !.raised = exc]
    /\ UNCHANGED <<fs, writable, scopes, frame, timeVars, nameVars>>

\* The with statement calls __exit__ with the error of the body, and lets that
\* error go on to the caller unless __exit__ returned a true value.
Exit ==
    /\ phase = "Exiting"
    /\ LET o == DirectoryManager_exit(pending)
       IN  call' = [NoCall EXCEPT !.op = "__exit__", !.path = Directory, !.logged = o.logged,
                                  !.raised = IF o.raised # NoError THEN o.raised
                                             ELSE IF o.suppress THEN NoError ELSE pending,
                                  !.scope = scopes[Len(scopes)]]
    /\ scopes' = SubSeq(scopes, 1, Len(scopes) - 1)
    /\ phase' = IF Len(scopes) > 1 THEN "Open" ELSE "Closed"
    /\ pending' = NoError
    /\ UNCHANGED <<fs, writable, frame, timeVars, nameVars>>

DeleteFile(p) ==
    /\ MayCall
    /\ LET o == delete_file(fs, writable, p)
       IN  /\ fs' = o.fs
           /\ call' = [NoCall EXCEPT !.op = "delete_file", !.path = p, !.ret = o.ret,
                                      !.raised = o.raised, !.printed = o.printed]
    /\ UNCHANGED <<writable, phase, scopes, pending, frame, timeVars, nameVars>>

\* A step o of create_directory or create_directory_for_file.
MakeStep(fr, o) ==
    /\ fs' = o.fs
    /\ frame' = o.frame
    /\ call' = IF o.done THEN [NoCall EXCEPT !.op = fr.op, !.path = fr.path, !.raised = o.raised]
               ELSE InProgress
    /\ UNCHANGED <<writable, phase, scopes, pending, timeVars, nameVars>>

\* create_directory(p) is called and tests whether p exists.
CreateDirectory(p) ==
    /\ MayCall
    /\ LET fr == Called("create_directory", p)
       IN  MakeStep(fr, create_directory(fs, writable, fr))

\* The next system call of create_directory, inside os.makedirs.
CreateDirectoryMakes ==
    /\ frame.op = "create_directory"
    /\ MakeStep(frame, create_directory(fs, writable, frame))

\* create_directory_for_file(p) is called and makes the first system call of
\* os.makedirs.
CreateDirectoryForFile(p) ==
    /\ MayCall
    /\ LET fr == Called("create_directory_for_file", p)
       IN  MakeStep(fr, create_directory_for_file(fs, writable, fr))

\* The next system call of create_directory_for_file, inside os.makedirs.
CreateDirectoryForFileMakes ==
    /\ frame.op = "create_directory_for_file"
    /\ MakeStep(frame, create_directory_for_file(fs, writable, frame))

\* Another process creates an entry, removes one (with what is below it), or
\* changes the permissions of the managed directory; this can happen between
\* two system calls of a call in progress.
External ==
    /\ frame' = IF frame = NoFrame THEN frame ELSE [frame EXCEPT !.touched = TRUE]
    /\ call' = IF frame = NoFrame THEN [NoCall EXCEPT !.op = "external"] ELSE call
    /\ UNCHANGED <<phase, scopes, pending, timeVars, nameVars>>

ExternalCreate(p, kind) ==
    /\ fs[p] = "absent"
    /\ Len(p) = 1 \/ IsDir(fs, Parent(p))
    /\ fs' = [fs EXCEPT ![p] = kind]
    /\ UNCHANGED writable
    /\ External

ExternalDelete(p) ==
    /\ fs[p] # "absent"
    /\ fs' = [q \in Paths |-> IF q = p \/ q \in Descendants(p) THEN "absent" ELSE fs[q]]
    /\ writable' = (p = Directory \/ writable)
    /\ External

ExternalChmod ==
    /\ IsDir(fs, Directory)
    /\ writable' = ~writable
    /\ UNCHANGED fs
    /\ External

Next ==
    \/ Enter
    \/ EnterLists
    \/ \E file_name \in {p[Len(p)] : p \in Paths} : EnterTests(file_name)
    \/ \E exc \in BodyErrors \cup {NoError} : BodyEnds(exc)
    \/ Exit
    \/ \E p \in Paths : DeleteFile(p)
    \/ \E p \in Paths : CreateDirectory(p)
    \/ CreateDirectoryMakes
    \/ \E p \in Paths \cup {BareFile} : CreateDirectoryForFile(p)
    \/ CreateDirectoryForFileMakes
    \/ \E p \in Paths, kind \in Kinds \ {"absent"} : ExternalCreate(p, kind)
    \/ \E p \in Paths : ExternalDelete(p)
    \/ ExternalChmod

Spec == Init /\ [][Next]_vars

(***************************************************************************)
(* Properties of the directory specification                               *)
(***************************************************************************)
\* The step is the first of a call of __enter__; it is the last; it is the
\* call of __exit__ by the with statement.
EnterCalled == frame = NoFrame /\ (frame'.op = "__enter__" \/ call'.op = "__enter__")
EnterEnds == call'.op = "__enter__" /\ (frame = NoFrame \/ frame.op = "__enter__")
ExitCalled == phase = "Exiting" /\ phase' # "Exiting"

\* A step that leaves a scope is the step of __exit__, with the error of the
\* body logged once and passed on.
ExitStepLogsAndPropagates ==
    /\ ExitCalled =>
          /\ call'.op = "__exit__"
          /\ scopes' = SubSeq(scopes, 1, Len(scopes) - 1)
          /\ call'.logged = (IF pending = NoError THEN <<>> ELSE <<pending>>)
          /\ call'.raised = pending
    /\ Len(scopes') < Len(scopes) => ExitCalled

\* C1: however the scope body ends, __exit__ runs before the caller gets
\* control back; if the body raised, the logger receives exactly one event,
\* for that error, and the same error reaches the caller.
ScopeExitLogsAndPropagates ==
    /\ [](phase = "Exiting" => ENABLED Exit)
    /\ [][ExitStepLogsAndPropagates]_vars

\* The body raised, __exit__ has run, one event was logged and the same error
\* went on to the caller.
ScopeErrorWitness ==
    /\ call.op = "__exit__"
    /\ phase = "Closed"
    /\ call.raised \in BodyErrors
    /\ call.logged = <<call.raised>>

\* A call of __enter__ while the directory does not exist ends at once.
EnterMissingStep ==
    (EnterCalled /\ ~Exists(fs, Directory)) =>
        /\ frame' = NoFrame
        /\ call'.op = "__enter__"
        /\ call'.raised = "FileNotFoundError"
        /\ ~call'.listed
        /\ call'.ret = NoValue
        /\ scopes' = scopes
        /\ phase' = phase

\* C2: __enter__ called over a path that does not exist raises
\* FileNotFoundError without listing anything: no list is returned and no
\* scope is opened.
EnterMissingFailsFirst == [][EnterMissingStep]_vars

EnterMissingWitness ==
    /\ call.op = "__enter__"
    /\ ~Exists(fs, Directory)
    /\ call.raised = "FileNotFoundError"
    /\ ~call.listed

\* A call of __enter__ that returns a list returns the regular files directly
\* in the directory, as they were when it was called or as they are when it
\* returns; over an existing directory it does return a list.
EnterAsClaimedStep ==
    EnterEnds =>
        /\ (frame.op = "__enter__" /\ frame.entry.isdir) => call'.raised = NoError
        /\ call'.raised = NoError =>
              \/ call'.ret = DirectFiles(fs')
              \/ call'.ret = frame.entry.files

\* C3 (as claimed): __enter__ over an existing directory returns exactly the
\* paths of the regular files directly inside it at the moment of entry.
EnterListsDirectFiles == [][EnterAsClaimedStep]_vars

\* The name a step of the loop of __enter__ tested.
TestedNames == frame.names \ (IF frame'.op = "__enter__" THEN frame'.names ELSE {})

EnterListsStep ==
    /\ (frame.op = "__enter__" /\ frame.at = "listdir" /\ frame'.at = "isfile") =>
          /\ frame'.names = {p[Len(p)] : p \in {q \in Paths : Len(q) > 1 /\ Parent(q) = Directory
                                                           /\ fs[q] # "absent"}}
          /\ frame'.file_paths = {}
    /\ (frame.op = "__enter__" /\ frame.at = "isfile") =>
          \/ frame' = [frame EXCEPT !.touched = TRUE]
          \/ \E n \in frame.names :
                LET p == Join(Directory, n)
                    found == IF frame'.op = "__enter__" THEN frame'.file_paths ELSE call'.ret
                IN  /\ TestedNames = {n}
                    /\ found = frame.file_paths \cup (IF fs[p] = "file" THEN {p} ELSE {})
                    /\ frame'.op = "__enter__" \/ (call'.op = "__enter__" /\ call'.raised = NoError)
    /\ EnterEnds =>
          /\ call'.raised = NoError =>
                /\ phase' = "Open"
                /\ scopes' = Append(scopes, call'.ret)
                /\ \A p \in call'.ret : Len(p) = Len(Directory) + 1 /\ Parent(p) = Directory
          /\ ~frame.touched =>
                IF IsDir(fs, Directory)
                THEN call'.raised = NoError /\ call'.ret = DirectFiles(fs)
                ELSE call'.raised # NoError /\ call'.ret = NoValue

\* C3 (amended): __enter__ returns the paths of those entries, among the names
\* the directory held when it was listed, that were regular files when each
\* was tested, and only direct children; when no other process changes the
\* file system during the call, that is exactly the regular files directly
\* inside the directory: no subdirectory, nested file or other entry, and no
\* direct regular file left out.
EnterListsTestedFiles == [][EnterListsStep]_vars

\* A directory with a regular file, a subdirectory holding a file, entered.
EnterListsWitness ==
    /\ call.op = "__enter__"
    /\ fs[<<"d", "a">>] = "file"
    /\ fs[<<"d", "sub">>] = "dir"
    /\ fs[<<"d", "sub", "n">>] = "file"
    /\ call.ret = {<<"d", "a">>}

\* No step changes the list an open scope holds, and __exit__ raises nothing
\* of its own.
SnapshotStep ==
    /\ \A i \in 1..Len(scopes) : i <= Len(scopes') => scopes'[i] = scopes[i]
    /\ ExitCalled => (call'.raised = pending /\ call'.scope = scopes[Len(scopes)])

\* C4: while the scope is open the list handed to the caller does not change,
\* whatever is created or deleted in the directory, and __exit__ raises
\* nothing of its own: the caller sees only what the body raised.
SnapshotIsKept == [][SnapshotStep]_vars

\* A scope that has been left without an error although the directory no
\* longer holds the files that were listed on entry.
StaleSnapshotWitness ==
    /\ call.op = "__exit__"
    /\ call.scope # DirectFiles(fs)
    /\ call.scope # {}
    /\ call.raised = NoError

\* A closed instance is not opened again.
ClosedStaysClosedStep ==
    /\ phase = "Closed" => phase' # "Open"
    /\ (phase = "Closed" /\ EnterEnds) =>
          (call'.raised # NoError /\ call'.ret = NoValue)

\* C5 (as claimed): once closed, an instance is not opened again; a further
\* __enter__ fails and returns no list.
SingleUse == [][ClosedStaysClosedStep]_vars

\* The order of the phases, and what __enter__ does on a closed instance.
ReenterStep ==
    /\ phase' # phase =>
          <<phase, phase'>> \in {<<"Unopened", "Open">>, <<"Open", "Exiting">>,
                                 <<"Exiting", "Closed">>, <<"Exiting", "Open">>,
                                 <<"Closed", "Open">>}
    /\ (phase = "Closed" /\ EnterCalled) =>
          IF Exists(fs, Directory)
          THEN frame'.op = "__enter__" /\ frame'.at = "listdir" /\ phase' = "Closed"
          ELSE call'.raised = "FileNotFoundError"
    /\ (phase = "Closed" /\ EnterEnds /\ call'.raised = NoError) =>
          /\ phase' = "Open"
          /\ scopes' = <<call'.ret>>
          /\ call'.reuse

\* C5 (amended): the phases follow Unopened -> Open -> (body ended) -> Closed,
\* but the instance records nothing: __enter__ on a closed instance does what
\* the first __enter__ does, going on to list the directory and opening the
\* instance again with the list it builds, or raising because the directory is
\* missing.
ClosedInstanceReopens == [][ReenterStep]_vars

\* The instance is open again after it had been closed.
ReopenedWitness ==
    /\ call.op = "__enter__"
    /\ call.reuse
    /\ phase = "Open"
    /\ call.ret # {}

\* A step of delete_file, told by what the caller sees afterwards.
DeleteFileAsClaimedStep ==
    call'.op = "delete_file" =>
        /\ call'.raised = NoError
        /\ ~Exists(fs', call'.path) => (call'.ret = TRUE /\ call'.printed = 0)
        /\ Exists(fs', call'.path) => (call'.ret = FALSE /\ call'.printed = 1 /\ fs' = fs)

\* C9: delete_file raises nothing; it returns true, reporting nothing,
\* whenever the file is absent after the call (it was removed or was not
\* there), and otherwise returns false, reports once and leaves the file
\* system as it was.
DeleteFileAsClaimed == [][DeleteFileAsClaimedStep]_vars

\* The directory a call is to ensure: the path, or the parent of the file path
\* (the empty path stands for the current directory).
EnsureTarget(c) == IF c.op = "create_directory" THEN c.path ELSE Parent(c.path)

Creatable(f, w, t) ==
    \A q \in Ancestors(t) \cup {t} :
        IsDir(f, q) \/ q = <<>> \/ (~Exists(f, q) /\ MayWrite(w, Parent(q)))

\* The last step of a call that no other process disturbed.
EnsureDirectoryStep ==
    (call'.op \in {"create_directory", "create_directory_for_file"} /\ ~frame.touched) =>
        LET t == EnsureTarget(call')
        IN  /\ Creatable(fs, writable, t) =>
                  /\ call'.raised = NoError
                  /\ \A q \in Ancestors(t) \cup {t} : q = <<>> \/ IsDir(fs', q)
            /\ (t = <<>> \/ IsDir(fs, t)) => (call'.raised = NoError /\ fs' = fs)

\* C10 (as claimed): where the directory can be created, create_directory and
\* create_directory_for_file raise nothing and leave the directory (for a file
\* path, its parent; for a bare file name, the current directory) and its
\* ancestors in place; where it is already there, nothing changes.
EnsureDirectoryIdempotent == [][EnsureDirectoryStep]_vars

(***************************************************************************)
(* format_time                                                             *)
(***************************************************************************)
\* A variant that cuts the milliseconds instead of rounding them.
MillisecondsTruncated(x) == FloatFloor(FloatTimes1000(FloatFrac(x)))

\* milliseconds = round((seconds - math.floor(seconds)) * 1000)
Milliseconds(x) == PyRound(FloatTimes1000(FloatFrac(x)))

format_time(d) ==
    LET sign == IF d.neg /\ d.k > 0 THEN <<"-">> ELSE <<>>
        x == FloatOfDecimal(d.k)
        whole == FloatFloor(x)
        hours == whole \div 3600
        minutes == (whole % 3600) \div 60
        secs == (whole % 3600) % 60
        milliseconds == Milliseconds(x)
    IN  sign \o PadInt(hours, 2) \o <<":">> \o PadInt(minutes, 2) \o <<":">>
             \o PadInt(secs, 2) \o <<",">> \o PadInt(milliseconds, 3)

\* round(d * 1000) for d >= 0, as Python computes it.
RoundMillis(k) == PyRound(FloatTimes1000(FloatOfDecimal(k)))

MaxHours == 1
Minutes == {0, 1, 22, 59}
Seconds == {0, 1, 52, 59}
Fractions == {0, 1, 4, 5, 6, 15, 625, 1875, 4995, 5000, 5005, 6055, 9375, 9994, 9995, 9996, 9999}

Durations ==
    { [neg |-> n, k |-> ((h * 60 + mi) * 60 + se) * DecimalScale + f] :
        n \in BOOLEAN, h \in 0..MaxHours, mi \in Minutes, se \in Seconds, f \in Fractions }

InitTime ==
    /\ duration \in Durations
    /\ formatted_time = NoValue
    /\ title = <<>>
    /\ cleaned_title = NoTitle
    /\ DirIdle

FormatTime ==
    /\ formatted_time = NoValue
    /\ formatted_time' = format_time(duration)
    /\ UNCHANGED <<duration, nameVars, dirVars>>

NextTime == FormatTime

SpecTime == InitTime /\ [][NextTime]_vars

(***************************************************************************)
(* Reading a timecode back: [-]HH:MM:SS,mmm split at ":" and ",".          *)
(***************************************************************************)
DigitValue(c) == (CHOOSE i \in 1..10 : DigitChars[i] = c) - 1

RECURSIVE ParseInt(_)
ParseInt(str) ==
    IF str = <<>> THEN 0
    ELSE 10 * ParseInt(SubSeq(str, 1, Len(str) - 1)) + DigitValue(str[Len(str)])

Positions(str, c) == {i \in 1..Len(str) : str[i] = c}
Least(S) == CHOOSE i \in S : \A j \in S : i <= j
Greatest(S) == CHOOSE i \in S : \A j \in S : i >= j

ParseTimecode(str) ==
    LET start == IF str[1] = "-" THEN 2 ELSE 1
        c1 == Least(Positions(str, ":"))
        c2 == Greatest(Positions(str, ":"))
        comma == Least(Positions(str, ","))
    IN  [negative |-> str[1] = "-",
         hours |-> ParseInt(SubSeq(str, start, c1 - 1)),
         minutes |-> ParseInt(SubSeq(str, c1 + 1, c2 - 1)),
         seconds |-> ParseInt(SubSeq(str, c2 + 1, comma - 1)),
         millis |-> ParseInt(SubSeq(str, comma + 1, Len(str))),
         millisWidth |-> Len(str) - comma]

TotalMillis(t) == ((t.hours * 60 + t.minutes) * 60 + t.seconds) * 1000 + t.millis

Formatted == formatted_time # NoValue

\* d * 1000, as a float, lies exactly halfway between two integers.
ProductIsTie(k) ==
    LET x == FloatTimes1000(FloatOfDecimal(k))
    IN  x.s > 0 /\ LowBits(x.m, x.s) # <<>> /\ LowBits(x.m, x.s - 1) = <<>>

\* C6 (as claimed): every rendered timecode has minutes and seconds in 0..59
\* and a three-digit milliseconds field in 0..999 (a fraction that rounds up
\* to 1000 ms is carried into the seconds).
TimeFieldsInRange ==
    Formatted =>
        LET t == ParseTimecode(formatted_time)
        IN  /\ t.minutes \in 0..59
            /\ t.seconds \in 0..59
            /\ t.millis \in 0..999
            /\ t.millisWidth = 3

\* C7 (as claimed): for d >= 0 the total milliseconds read back from
\* format_time(d) are exactly round(d * 1000).
RoundTripExact ==
    (Formatted /\ ~duration.neg) =>
        TotalMillis(ParseTimecode(formatted_time)) = RoundMillis(duration.k)

\* C7 (amended): for d >= 0 the total milliseconds read back from
\* format_time(d) equal round(d * 1000), except that they may differ from it
\* by one when the floating-point product d * 1000 is exactly a half-integer.
RoundTripUpToTie ==
    (Formatted /\ ~duration.neg) =>
        LET total == TotalMillis(ParseTimecode(formatted_time))
            rounded == RoundMillis(duration.k)
        IN  \/ total = rounded
            \/ ProductIsTie(duration.k) /\ (total = rounded + 1 \/ total = rounded - 1)

\* A non-negative duration whose product d * 1000 is a tie and whose timecode
\* reads back one millisecond away from round(d * 1000).
RoundTripTieWitness ==
    /\ Formatted
    /\ ~duration.neg
    /\ ProductIsTie(duration.k)
    /\ TotalMillis(ParseTimecode(formatted_time)) # RoundMillis(duration.k)


(***************************************************************************)
(* clean_file_name.  A title is a sequence of Unicode code points.         *)
(***************************************************************************)
\* a-z and A-Z
Letters == (97..122) \cup (65..90)
\* 0-9
Digits == 48..57
\* The code points the class \s of a str pattern matches: tab, line feed,
\* vertical tab, form feed, carriage return, the four separators, space,
\* next line, no-break space and the Unicode spaces.
Whitespace ==
    (9..13) \cup (28..32) \cup {133, 160, 5760} \cup (8192..8202)
        \cup {8232, 8233, 8239, 8287, 12288}
Dot == 46
Underscore == 95
Space == 32

\* re.sub(r"[^a-zA-Z0-9\s.]", "_", title)
ReplaceSpecial(str) ==
    [i \in 1..Len(str) |->
        IF str[i] \in Letters \cup Digits \cup Whitespace \cup {Dot} THEN str[i] ELSE Underscore]

\* re.sub(r"_+", "_", s)
RECURSIVE CollapseUnderscores(_)
CollapseUnderscores(str) ==
    IF Len(str) < 2 THEN str
    ELSE IF str[1] = Underscore /\ str[2] = Underscore THEN CollapseUnderscores(Tail(str))
    ELSE <<str[1]>> \o CollapseUnderscores(Tail(str))

\* s.strip("_")
StripUnderscores(str) ==
    LET keep == {i \in 1..Len(str) : str[i] # Underscore}
    IN  IF keep = {} THEN <<>> ELSE SubSeq(str, Least(keep), Greatest(keep))

\* s.replace(" ", "")
RemoveSpaces(str) == SelectSeq(str, LAMBDA c : c # Space)

clean_file_name(t) == RemoveSpaces(StripUnderscores(CollapseUnderscores(ReplaceSpecial(t))))

MaxTitleLen == 4
\* a, Z, 7, space, tab, vertical tab, no-break space, ".", "_", "!", e acute
TitleChars == {97, 90, 55, 32, 9, 11, 160, 46, 95, 33, 233}
Titles == UNION {[1..n -> TitleChars] : n \in 0..MaxTitleLen}

InitName ==
    /\ title \in Titles
    /\ cleaned_title = NoTitle
    /\ duration = [neg |-> FALSE, k |-> 0]
    /\ formatted_time = NoValue
    /\ DirIdle

CleanFileName ==
    /\ cleaned_title = NoTitle
    /\ cleaned_title' = clean_file_name(title)
    /\ UNCHANGED <<title, timeVars, dirVars>>

NextName == CleanFileName

SpecName == InitName /\ [][NextName]_vars

\* C8 (as claimed): the cleaned name holds only characters of [A-Za-z0-9_],
\* does not start or end with "_" and does not contain "__".
SafeNameShape ==
    cleaned_title # NoTitle =>
        LET n == Len(cleaned_title)
        IN  /\ \A i \in 1..n : cleaned_title[i] \in Letters \cup Digits \cup {Underscore}
            /\ n > 0 => cleaned_title[1] # Underscore /\ cleaned_title[n] # Underscore
            /\ \A i \in 1..(n - 1) :
                  ~(cleaned_title[i] = Underscore /\ cleaned_title[i + 1] = Underscore)

====
